---- MODULE Spec2Model ----
(***************************************************************************)
(* SalienScript (src/src/index.js): the bounded-retry request layer        *)
(* (RequestAPI and its endpoint wrappers), the planet selection pass       *)
(* (setupGame) and the top-level run loop (init, gameLoop).                *)
(*                                                                         *)
(* The program is single-threaded; a step of the model is the code that    *)
(* runs between two suspension points (an awaited fetch or an awaited      *)
(* delay).  The remote API is the environment: every attempt either fails  *)
(* at transport level (fetch or json() rejects) or decodes to one of the   *)
(* body shapes below.  Capture progress is kept in hundredths (0.97 is 97).*)
(* Planet entries of GetPlanets are taken to carry a well-formed state     *)
(* object (it is only read for the log line 263-266), so a planet is its   *)
(* id.                                                                     *)
(***************************************************************************)
EXTENDS Integers, Sequences, FiniteSets, TLC

VARIABLES
    pc,               \* position of the one async control flow
    token, clan,      \* this.token, this.clan
    maxRetries,       \* this.maxRetries
    currentPlanetId,  \* this.currentPlanetId (NoPlanet is null)
    knownPlanets,     \* this.knownPlanets
    planets,          \* setupGame: const planets
    index,            \* asyncForEach: index (1-based here), 0 outside the loop
    zones,            \* callback: let zones (a decoded detail, or undefined)
    hardZones, mediumZones, easyZones, unknownZones, hasBossZone,
    req,              \* the running RequestAPI call: method, planet, retries
                      \* (and, observed: attempts, decoded bodies, backoffs)
    caught,           \* the error init's catch received last
    \* -- observation only (never read by the program) --
    lastCall,         \* how the RequestAPI call that just finished ended
    lastBody,         \* the body the last decoded attempt produced
    detailCalls,      \* planet ids ApiGetPlanet was invoked with, this pass
    pass,             \* number of selection passes begun
    chosen,           \* this pass assigned currentPlanetId
    knownAtStart,     \* Len(knownPlanets) when this pass began
    spins,            \* refetches of the current planet's detail
    scanned,          \* the zone scan of the current planet has run
    exhausted,        \* a RequestAPI call of this pass exhausted its budget
    inflight,         \* requests issued and not yet settled
    running,          \* invocations of setupGame that have not ended
    snap              \* the API's answers of an unchanged snapshot, when one is
                      \* held fixed (snap.on), and the previous pass's choice

vars == <<pc, token, clan, maxRetries, currentPlanetId, knownPlanets, planets, index, zones,
          hardZones, mediumZones, easyZones, unknownZones, hasBossZone, req,
          caught, lastCall, lastBody, detailCalls, pass, chosen, knownAtStart,
          spins, scanned, exhausted, inflight, running, snap>>

----------------------------------------------------------------------------
(* Bounds of the model *)

MaxPlanets == 2       \* longest planet list GetPlanets returns; ids 1..MaxPlanets
MaxZones == 1         \* longest zone list GetPlanet returns in a pass
MaxScanZones == 2     \* longest zone list the zone scan is explored on alone
MaxPasses == 2        \* selection passes (restarts of init) explored
MaxSpin == 1          \* empty detail payloads per planet
MaxFalsy == 1         \* falsy decoded bodies per RequestAPI call
MaxCeiling == 3       \* retry ceilings 1..MaxCeiling explored by SpecCeil

(* Program constants *)

NoPlanet == 0                 \* null
CtorMaxRetries == 2           \* this.maxRetries = 2
defaultDelayMs == 5000
BossType == 4
NormalType == 3
HardDifficulty == 3
MediumDifficulty == 2
EasyDifficulty == 1
NearlyCaptured == 97          \* 0.97, in hundredths

----------------------------------------------------------------------------
(* Values *)

PlanetIds == 1..MaxPlanets

SeqsUpTo(S, n) == UNION {[1..k -> S] : k \in 0..n}

Distinct(s) == \A i, j \in 1..Len(s) : i # j => s[i] # s[j]

PlanetLists == {l \in SeqsUpTo(PlanetIds, MaxPlanets) : Distinct(l)}

ZoneRecords(types, difficulties, progresses) ==
    [type : types, difficulty : difficulties,
     captured : BOOLEAN, capture_progress : progresses]

\* The zones of the details a selection pass is explored on.
Zone == ZoneRecords({NormalType, BossType}, {HardDifficulty},
                    {NearlyCaptured, NearlyCaptured + 1})

ZoneLists == SeqsUpTo(Zone, MaxZones)

\* The zones the scan is explored on alone: every type class (normal, boss,
\* other), every difficulty bucket, progress absent, at and over the limit.
ScanZoneValues ==
    ZoneRecords({NormalType, BossType, 5},
                {HardDifficulty, MediumDifficulty, EasyDifficulty, 0},
                {0, NearlyCaptured, NearlyCaptured + 1})

ScanZoneLists == SeqsUpTo(ScanZoneValues, MaxScanZones)

Body(k, ps, zs) == [kind |-> k, planets |-> ps, zones |-> zs]

NoBody == Body("none", <<>>, <<>>)

\* What request.json() can resolve to for GetPlanets.
PlanetsBodies ==
    {Body(k, <<>>, <<>>) : k \in {"falsy", "noResponse", "noPlanets"}}
        \cup {Body("planets", l, <<>>) : l \in PlanetLists}

\* What request.json() can resolve to for GetPlanet.
PlanetBodies ==
    {Body(k, <<>>, <<>>) :
        k \in {"falsy", "noResponse", "noPlanets", "emptyPlanets", "noZones"}}
        \cup {Body("zones", <<>>, z) : z \in ZoneLists}

Error(n, t, m, r) == [name |-> n, text |-> t, method |-> m, retries |-> r]

NoError == Error("none", "", "", 0)

SalienScriptException(t, m, r) == Error("SalienScriptException", t, m, r)

TypeError(t) == Error("TypeError", t, "", 0)

Request(m, p) == [method |-> m, planet |-> p, retries |-> 0,
                  attempts |-> 0, decoded |-> 0, backoffs |-> 0, waited |-> 0]

NoRequest == Request("none", NoPlanet)

Call(m, o, a, f, d, b, w, e) ==
    [method |-> m, outcome |-> o, attempts |-> a, fails |-> f,
     decoded |-> d, backoffs |-> b, waited |-> w, error |-> e]

NoCall == Call("none", "none", 0, 0, 0, 0, 0, NoError)

\* The answers of the API held fixed over the passes: the body of GetPlanets,
\* the body of GetPlanet per planet (NoBody while not yet asked), and how the
\* previous pass ended.
Snapshot(on) ==
    [on |-> on, list |-> NoBody, detail |-> [p \in PlanetIds |-> NoBody],
     prevChosen |-> FALSE, prevId |-> NoPlanet]

Result(t, e, ps, zs) == [tag |-> t, error |-> e, planets |-> ps, zones |-> zs]

Undefined == Result("undefined", NoError, <<>>, <<>>)

----------------------------------------------------------------------------
(* RequestAPI, lines 99-125 *)

\* !response, line 103: no body yet, or a decoded body that is falsy.
Truthy(body) == body.kind \notin {"none", "falsy"}

\* The while condition of line 103.
LoopContinues(body, retries, max) == ~Truthy(body) /\ retries < max

CanRetry_offByOne(retries, max) == retries <= max

\* Line 114: after a failed attempt, whether another one follows.
CanRetry(retries, max) == retries < max

BackoffDelay_growing(retries) == defaultDelayMs * retries

\* Line 120: the wait after the retries-th failed attempt.
BackoffDelay(retries) == defaultDelayMs

AfterAwait_missing(n) == n

\* Lines 106-107: await; the flow resumes when the request has settled.
AfterAwait(n) == n - 1

\* Line 106: fetch(url, options) issues a request.
AfterFetch(n) == n + 1

PlanetDetailCall_join == "JoinPlanet"

\* Lines 223 and 233: the callback asks for a planet with this.ApiGetPlanet,
\* the service method GetPlanet (line 138).
PlanetDetailCall == "GetPlanet"

\* Lines 127-183: the service methods RequestAPI is called with; the first
\* two are plain GET requests without the token, the others POST the token.
ReadMethods == {"GetPlanets", "GetPlanet"}

WriteMethods == {"GetPlayerInfo", "RepresentClan", "LeaveGame", "JoinPlanet"}

\* Line 117: the exception of an exhausted call.
FailedAfter(method, retries) == SalienScriptException("Failed", method, retries)

\* Lines 127-134: ApiGetPlanets, response.planets of what RequestAPI returned.
ApiGetPlanetsResult(body) ==
    CASE body.kind = "planets" -> Result("value", NoError, body.planets, <<>>)
      [] body.kind = "noPlanets" -> Undefined
      [] OTHER -> Result("throw", TypeError("planets of undefined"), <<>>, <<>>)

\* Lines 136-143: ApiGetPlanet, response.planets[0] of what RequestAPI returned.
ApiGetPlanetResult(body) ==
    CASE body.kind = "zones" -> Result("value", NoError, <<>>, body.zones)
      [] body.kind = "noZones" -> Result("noZones", NoError, <<>>, <<>>)
      [] body.kind = "emptyPlanets" -> Undefined
      [] body.kind = "noPlanets" ->
            Result("throw", TypeError("0 of undefined"), <<>>, <<>>)
      [] OTHER -> Result("throw", TypeError("planets of undefined"), <<>>, <<>>)

----------------------------------------------------------------------------
(* The zone scan of the asyncForEach callback, lines 225-261 *)

\* Line 237: the zone is skipped.
Skipped(zone) ==
    \/ (zone.capture_progress # 0 /\ zone.capture_progress > NearlyCaptured)
    \/ zone.captured

InitialTally_once ==
    [hard |-> 0, medium |-> 0, easy |-> 0, unknown |-> 0,
     boss |-> currentPlanetId = NoPlanet]

\* Lines 225-230: the callback's counters before the scan.
InitialTally == [hard |-> 0, medium |-> 0, easy |-> 0, unknown |-> 0,
                 boss |-> TRUE]

ScanZone_skipsUnknownType(t, zone) ==
    IF Skipped(zone) \/ zone.type \notin {BossType, NormalType} THEN t
    ELSE [hard |-> t.hard + (IF zone.difficulty = HardDifficulty THEN 1 ELSE 0),
          medium |-> t.medium
                       + (IF zone.difficulty = MediumDifficulty THEN 1 ELSE 0),
          easy |-> t.easy + (IF zone.difficulty = EasyDifficulty THEN 1 ELSE 0),
          unknown |-> t.unknown
                       + (IF zone.difficulty \notin
                              {HardDifficulty, MediumDifficulty, EasyDifficulty}
                          THEN 1 ELSE 0),
          boss |-> (zone.type = BossType) \/ t.boss]

\* Lines 237-260: one iteration of zones.zones.forEach.
ScanZone(t, zone) ==
    IF Skipped(zone) THEN t
    ELSE [hard |-> t.hard + (IF zone.difficulty = HardDifficulty THEN 1 ELSE 0),
          medium |-> t.medium
                       + (IF zone.difficulty = MediumDifficulty THEN 1 ELSE 0),
          easy |-> t.easy + (IF zone.difficulty = EasyDifficulty THEN 1 ELSE 0),
          unknown |-> t.unknown
                       + (IF zone.difficulty \notin
                              {HardDifficulty, MediumDifficulty, EasyDifficulty}
                          THEN 1 ELSE 0),
          boss |-> (zone.type = BossType) \/ t.boss]

RECURSIVE ScanFrom(_, _, _)
ScanFrom(t, zs, i) ==
    IF i > Len(zs) THEN t ELSE ScanFrom(ScanZone(t, zs[i]), zs, i + 1)

\* Lines 236-261: zones.zones.forEach over the whole list.
ScanZones(zs) == ScanFrom(InitialTally, zs, 1)

Refetch_never(detail) == FALSE

\* Line 232: while (!zones), the detail is fetched again.
Refetch(detail) == detail.tag = "undefined"

ThrowsOnSelect_not(boss) == FALSE

\* Lines 272-277: the callback leaves asyncForEach by throwing.
ThrowsOnSelect(boss) == boss

KnownAfterPush_none(known, id) == known

\* Line 221: _this.knownPlanets.push(planet.id).
KnownAfterPush(known, id) == Append(known, id)

\* Lines 279-286: what setupGame's catch does with an error of the scan.
Swallowed(e) == e.name = "SalienScriptException"

Rethrown(e) == SalienScriptException(e.text, "", 0)

----------------------------------------------------------------------------
(* State *)

locals == <<zones, hardZones, mediumZones, easyZones, unknownZones,
            hasBossZone>>

fields == <<maxRetries, currentPlanetId, knownPlanets>>

config == <<token, clan>>

LocalsAre(z, t) ==
    /\ zones' = z
    /\ hardZones' = t.hard
    /\ mediumZones' = t.medium
    /\ easyZones' = t.easy
    /\ unknownZones' = t.unknown
    /\ hasBossZone' = t.boss

\* Lines 59-71, then the first call of init.
InitWith(ceilings) ==
    /\ pc = "init"
    /\ token = "token"
    /\ clan = "clan"
    /\ inflight = 0
    /\ running = 0
    /\ maxRetries \in ceilings
    /\ currentPlanetId = NoPlanet
    /\ knownPlanets = <<>>
    /\ planets = <<>>
    /\ index = 0
    /\ zones = Undefined
    /\ hardZones = 0 /\ mediumZones = 0 /\ easyZones = 0 /\ unknownZones = 0
    /\ hasBossZone = TRUE
    /\ req = NoRequest
    /\ caught = NoError
    /\ lastCall = NoCall
    /\ lastBody = NoBody
    /\ detailCalls = <<>>
    /\ pass = 0
    /\ chosen = FALSE
    /\ knownAtStart = 0
    /\ spins = 0
    /\ scanned = FALSE
    /\ exhausted = FALSE

Init == InitWith({CtorMaxRetries}) /\ snap = Snapshot(FALSE)

\* The same program with any retry ceiling 1..MaxCeiling in this.maxRetries.
InitCeil == InitWith(1..MaxCeiling) /\ snap = Snapshot(FALSE)

----------------------------------------------------------------------------
(* Steps shared by the actions *)

Finished(outcome, r, e) ==
    Call(r.method, outcome, r.attempts, r.retries, r.decoded, r.backoffs,
         r.waited, e)

\* An error leaves setupGame and reaches the catch of init, line 370.
ThrowToInit(e) ==
    /\ pc' = "restart"
    /\ caught' = e
    /\ req' = NoRequest
    /\ running' = running - 1

\* setupGame returns normally to init, line 364.
SetupGameReturns ==
    /\ pc' = "gameLoop"
    /\ req' = NoRequest
    /\ caught' = caught
    /\ running' = running - 1

\* Lines 220-233: the callback starts on planets[i]: the id is pushed, the
\* counters are initialised and the first detail request is issued.
BeginPlanet(ps, i) ==
    /\ index' = i
    /\ knownPlanets' = KnownAfterPush(knownPlanets, ps[i])
    /\ LocalsAre(Undefined, InitialTally)
    /\ scanned' = FALSE
    /\ spins' = 0
    /\ detailCalls' = Append(detailCalls, ps[i])
    /\ req' = Request(PlanetDetailCall, ps[i])
    /\ pc' = "req"
    /\ caught' = caught
    /\ running' = running

----------------------------------------------------------------------------
(* Actions *)

\* init, lines 360-364: setupGame is entered and ApiGetPlanets issues its
\* request (the loop of line 103 is entered).
InitStart ==
    /\ pc = "init"
    /\ pass < MaxPasses
    /\ pass' = pass + 1
    /\ req' = Request("GetPlanets", NoPlanet)
    /\ pc' = IF LoopContinues(NoBody, 0, maxRetries) THEN "req" ELSE "restart"
    /\ caught' = IF LoopContinues(NoBody, 0, maxRetries) THEN NoError
                 ELSE TypeError("response of undefined")
    /\ planets' = <<>>
    /\ index' = 0
    /\ LocalsAre(Undefined, InitialTally)
    /\ lastCall' = NoCall
    /\ lastBody' = NoBody
    /\ detailCalls' = <<>>
    /\ chosen' = FALSE
    /\ knownAtStart' = Len(knownPlanets)
    /\ spins' = 0
    /\ scanned' = FALSE
    /\ exhausted' = FALSE
    /\ running' = IF LoopContinues(NoBody, 0, maxRetries) THEN running + 1
                  ELSE running
    /\ inflight' = IF LoopContinues(NoBody, 0, maxRetries)
                   THEN AfterFetch(inflight) ELSE inflight
    /\ snap' = IF snap.on /\ pass > 0
               THEN [snap EXCEPT !.prevChosen = chosen, !.prevId = currentPlanetId]
               ELSE snap
    /\ UNCHANGED <<fields, config>>

\* RequestAPI, lines 104-121, for GetPlanets: fetch or json() rejects.
GetPlanetsAttemptFails ==
    /\ pc = "req"
    /\ req.method = "GetPlanets"
    /\ LET r == [req EXCEPT !.retries = @ + 1, !.attempts = @ + 1] IN
       IF CanRetry(r.retries, maxRetries)
       THEN /\ pc' = "backoff"
            /\ req' = r
            /\ lastCall' = NoCall
            /\ UNCHANGED <<caught, exhausted, running>>
       ELSE \* line 117; the call is outside the try of setupGame
            /\ lastCall' = Finished("raised", r, FailedAfter(r.method, r.retries))
            /\ exhausted' = TRUE
            /\ ThrowToInit(FailedAfter(r.method, r.retries))
    /\ inflight' = AfterAwait(inflight)
    /\ UNCHANGED <<fields, planets, index, locals, lastBody, detailCalls, pass,
                   chosen, knownAtStart, spins, scanned, config, snap>>

\* RequestAPI, lines 104-121, for GetPlanet: fetch or json() rejects.
GetPlanetAttemptFails ==
    /\ pc = "req"
    /\ req.method = "GetPlanet"
    /\ LET r == [req EXCEPT !.retries = @ + 1, !.attempts = @ + 1]
           e == FailedAfter(r.method, r.retries) IN
       IF CanRetry(r.retries, maxRetries)
       THEN /\ pc' = "backoff"
            /\ req' = r
            /\ lastCall' = NoCall
            /\ UNCHANGED <<caught, exhausted, running>>
       ELSE \* line 117; the call is inside the try of setupGame, lines 279-286
            /\ lastCall' = Finished("raised", r, e)
            /\ exhausted' = TRUE
            /\ IF Swallowed(e) THEN SetupGameReturns ELSE ThrowToInit(Rethrown(e))
    /\ inflight' = AfterAwait(inflight)
    /\ UNCHANGED <<fields, planets, index, locals, lastBody, detailCalls, pass,
                   chosen, knownAtStart, spins, scanned, config, snap>>

\* RequestAPI, line 120: the delay has elapsed and the condition of line 103
\* is evaluated again (response is still unset or falsy); were the loop left
\* here, line 124 would read a property of undefined.
Backoff ==
    /\ pc = "backoff"
    /\ LET r == [req EXCEPT !.backoffs = @ + 1,
                            !.waited = @ + BackoffDelay(req.retries)]
           e == TypeError("response of undefined") IN
       IF LoopContinues(NoBody, r.retries, maxRetries)
       THEN /\ pc' = "req"
            /\ req' = r
            /\ inflight' = AfterFetch(inflight)
            /\ UNCHANGED <<caught, lastCall, running>>
       ELSE /\ lastCall' = Finished("typeError", r, e)
            /\ inflight' = inflight
            /\ IF r.method = "GetPlanets" THEN ThrowToInit(e)
               ELSE IF Swallowed(e) THEN SetupGameReturns
               ELSE ThrowToInit(Rethrown(e))
    /\ UNCHANGED <<fields, planets, index, locals, lastBody,
                   detailCalls, pass, chosen, knownAtStart, spins, scanned,
                   exhausted, config, snap>>

\* RequestAPI, lines 106-107, for GetPlanets: the body decodes; then lines
\* 103, 124, 133, 213-221 up to the first detail request.
GetPlanetsAttemptDecodes ==
    /\ pc = "req"
    /\ req.method = "GetPlanets"
    /\ \E body \in PlanetsBodies :
       LET r == [req EXCEPT !.attempts = @ + 1, !.decoded = @ + 1]
           got == ApiGetPlanetsResult(body) IN
       /\ body.kind = "falsy" => req.decoded < MaxFalsy
       /\ (snap.on /\ snap.list # NoBody) => body = snap.list
       /\ snap' = IF snap.on THEN [snap EXCEPT !.list = body] ELSE snap
       /\ lastBody' = body
       /\ IF LoopContinues(body, r.retries, maxRetries)
          THEN /\ req' = r
               /\ lastCall' = NoCall
               /\ UNCHANGED <<pc, caught, planets, index, locals, running,
                              knownPlanets, detailCalls, spins, scanned>>
          ELSE /\ lastCall' = Finished("returned", r, NoError)
               /\ CASE got.tag = "throw" ->
                         /\ ThrowToInit(got.error)
                         /\ UNCHANGED <<planets, index, locals, knownPlanets,
                                        detailCalls, spins, scanned>>
                    [] got.tag = "undefined" ->   \* lines 215-217
                         /\ ThrowToInit(SalienScriptException(
                                            "Didn't find any planets.", "", 0))
                         /\ UNCHANGED <<planets, index, locals, knownPlanets,
                                        detailCalls, spins, scanned>>
                    [] OTHER ->
                         /\ planets' = got.planets
                         /\ IF Len(got.planets) > 0   \* line 39
                            THEN BeginPlanet(got.planets, 1)
                            ELSE /\ SetupGameReturns
                                 /\ UNCHANGED <<index, locals, knownPlanets,
                                                detailCalls, spins, scanned>>
    /\ inflight' = IF pc' = "req" THEN AfterFetch(AfterAwait(inflight))
                   ELSE AfterAwait(inflight)
    /\ UNCHANGED <<maxRetries, currentPlanetId, pass, chosen, knownAtStart,
                   exhausted, config>>

\* RequestAPI, lines 106-107, for GetPlanet: the body decodes; then lines
\* 103, 124, 142, 232-278 and the loop of asyncForEach, lines 39-41.
GetPlanetAttemptDecodes ==
    /\ pc = "req"
    /\ req.method = "GetPlanet"
    /\ \E body \in PlanetBodies :
       LET r == [req EXCEPT !.attempts = @ + 1, !.decoded = @ + 1]
           got == ApiGetPlanetResult(body)
           t == ScanZones(got.zones) IN
       /\ body.kind = "falsy" => req.decoded < MaxFalsy
       /\ body.kind = "emptyPlanets" => spins < MaxSpin
       /\ (snap.on /\ snap.detail[req.planet] # NoBody)
             => body = snap.detail[req.planet]
       /\ snap' = IF snap.on THEN [snap EXCEPT !.detail[req.planet] = body]
                  ELSE snap
       /\ lastBody' = body
       /\ IF LoopContinues(body, r.retries, maxRetries)
          THEN /\ req' = r
               /\ lastCall' = NoCall
               /\ UNCHANGED <<pc, caught, index, locals, fields, running,
                              detailCalls, spins, scanned, chosen>>
          ELSE /\ lastCall' = Finished("returned", r, NoError)
               /\ CASE got.tag = "throw" ->
                         /\ IF Swallowed(got.error) THEN SetupGameReturns
                            ELSE ThrowToInit(Rethrown(got.error))
                         /\ UNCHANGED <<index, locals, fields, detailCalls,
                                        spins, scanned, chosen>>
                    [] got.tag # "throw" /\ Refetch(got) ->   \* line 232
                         /\ req' = Request(PlanetDetailCall, req.planet)
                         /\ detailCalls' = Append(detailCalls, req.planet)
                         /\ spins' = spins + 1
                         /\ UNCHANGED <<pc, caught, index, locals, fields,
                                        scanned, chosen, running>>
                    [] got.tag # "throw" /\ ~Refetch(got)
                          /\ got.tag # "value" ->
                         \* line 236: zones.zones is undefined
                         /\ zones' = got
                         /\ ThrowToInit(Rethrown(TypeError("forEach of undefined")))
                         /\ UNCHANGED <<index, hardZones, mediumZones, easyZones,
                                        unknownZones, hasBossZone, fields,
                                        detailCalls, spins, scanned, chosen>>
                    [] OTHER ->
                         /\ currentPlanetId' =
                               IF t.boss THEN planets[index] ELSE currentPlanetId
                         /\ chosen' = (chosen \/ t.boss)
                         /\ maxRetries' = maxRetries
                         /\ IF ThrowsOnSelect(t.boss)
                            THEN \* line 276, caught at line 279
                                 /\ LocalsAre(got, t)
                                 /\ scanned' = TRUE
                                 /\ IF Swallowed(SalienScriptException("", "", 0))
                                    THEN SetupGameReturns
                                    ELSE ThrowToInit(Rethrown(
                                             SalienScriptException("", "", 0)))
                                 /\ UNCHANGED <<index, knownPlanets, detailCalls,
                                                spins>>
                            ELSE IF index < Len(planets)   \* line 39
                            THEN BeginPlanet(planets, index + 1)
                            ELSE /\ LocalsAre(got, t)
                                 /\ scanned' = TRUE
                                 /\ SetupGameReturns
                                 /\ UNCHANGED <<index, knownPlanets, detailCalls,
                                                spins>>
    /\ inflight' = IF pc' = "req" THEN AfterFetch(AfterAwait(inflight))
                   ELSE AfterAwait(inflight)
    /\ UNCHANGED <<planets, pass, knownAtStart, exhausted, config>>

\* init, lines 367-372: gameLoop throws (line 327) and init's catch logs it.
GameLoop ==
    /\ pc = "gameLoop"
    /\ pc' = "restart"
    /\ caught' = SalienScriptException("gameLoop() not yet implemented", "", 0)
    /\ LocalsAre(Undefined, InitialTally)
    /\ lastBody' = NoBody
    /\ lastCall' = NoCall
    /\ scanned' = FALSE
    /\ UNCHANGED <<fields, planets, index, req, detailCalls, pass,
                   chosen, knownAtStart, spins, exhausted, config, inflight,
                   running, snap>>

AfterCatch_returns == "exit"

\* Line 376: after the delay of its catch block init calls this.init().
AfterCatch == "init"

\* init, lines 374-376: the delay has elapsed and init is called again.
Restart ==
    /\ pc = "restart"
    /\ pc' = AfterCatch
    /\ lastCall' = NoCall
    /\ UNCHANGED <<fields, planets, index, locals, req, caught,
                   lastBody, detailCalls, pass, chosen, knownAtStart, spins,
                   scanned, exhausted, config, inflight, running, snap>>

\* One run of init up to its restart: a selection pass and what follows it.
NextPass ==
    \/ InitStart
    \/ GetPlanetsAttemptFails
    \/ GetPlanetAttemptFails
    \/ Backoff
    \/ GetPlanetsAttemptDecodes
    \/ GetPlanetAttemptDecodes
    \/ GameLoop

Next ==
    \/ NextPass
    \/ Restart

Spec == Init /\ [][Next]_vars

\* The run of init with its scheduling: the timer of the delay of line 374
\* fires, and the call this.init() of line 376 runs to its first request.
SpecFair == Spec /\ WF_vars(Restart) /\ WF_vars(InitStart)

\* The first run of init under every retry ceiling 1..MaxCeiling.
SpecCeil == InitCeil /\ [][NextPass]_vars

\* The passes of one instance against an API whose answers do not change and
\* whose transport never fails: the first answer of an endpoint is the answer
\* of every later call of it.
InitSnap == InitWith({CtorMaxRetries}) /\ snap = Snapshot(TRUE)

NextSnap ==
    \/ InitStart
    \/ GetPlanetsAttemptDecodes
    \/ GetPlanetAttemptDecodes
    \/ GameLoop
    \/ Restart

SpecSnap == InitSnap /\ [][NextSnap]_vars

\* The zone scan alone (lines 225-261), on every zone list of ScanZoneLists.
InitScan ==
    /\ pc = "scan"
    /\ token = "token"
    /\ clan = "clan"
    /\ inflight = 0
    /\ running = 0
    /\ snap = Snapshot(FALSE)
    /\ maxRetries = CtorMaxRetries
    /\ currentPlanetId = NoPlanet
    /\ knownPlanets = <<>>
    /\ planets = <<>>
    /\ index = 0
    /\ zones \in {Result("value", NoError, <<>>, zs) : zs \in ScanZoneLists}
    /\ hardZones = 0 /\ mediumZones = 0 /\ easyZones = 0 /\ unknownZones = 0
    /\ hasBossZone = TRUE
    /\ req = NoRequest
    /\ caught = NoError
    /\ lastCall = NoCall
    /\ lastBody = NoBody
    /\ detailCalls = <<>>
    /\ pass = 0
    /\ chosen = FALSE
    /\ knownAtStart = 0
    /\ spins = 0
    /\ scanned = FALSE
    /\ exhausted = FALSE

\* Lines 236-261 on the detail held in zones.
ScanStep ==
    /\ pc = "scan"
    /\ pc' = "scanned"
    /\ LocalsAre(zones, ScanZones(zones.zones))
    /\ scanned' = TRUE
    /\ UNCHANGED <<fields, planets, index, req, caught, lastCall, lastBody,
                   detailCalls, pass, chosen, knownAtStart, spins, exhausted,
                   config, inflight, running, snap>>

SpecScan == InitScan /\ [][ScanStep]_vars

----------------------------------------------------------------------------
(* Vocabulary of the properties *)

\* A zone is eligible when it is not captured and its progress is at most 0.97.
Eligible(zone) == ~zone.captured /\ zone.capture_progress <= NearlyCaptured

HasEligibleBoss(zs) ==
    \E i \in 1..Len(zs) : Eligible(zs[i]) /\ zs[i].type = BossType

EligibleCount(zs) == Cardinality({i \in 1..Len(zs) : Eligible(zs[i])})

\* The ids this pass has appended to knownPlanets.
AppendedThisPass == SubSeq(knownPlanets, knownAtStart + 1, Len(knownPlanets))

\* A pass is over once setupGame has returned or thrown.
PassReturned == pc = "gameLoop"

\* The RequestAPI call that just finished is a GetPlanet call whose decoded
\* body carried no planet entry.
EmptyDetailArrived ==
    /\ lastCall.method = "GetPlanet"
    /\ lastCall.outcome = "returned"
    /\ lastBody.kind = "emptyPlanets"

----------------------------------------------------------------------------
(* Properties *)

\* C1: the planet setupGame records in currentPlanetId is the planet being
\* scanned, and it holds at least one eligible zone of boss type: a planet
\* (here one that has zones) with no eligible boss zone is never the
\* selection result.
C1_SelectsFirstPlanetWithEligibleBoss ==
    (PassReturned /\ chosen /\ scanned /\ Len(zones.zones) > 0) =>
        /\ currentPlanetId = planets[index]
        /\ HasEligibleBoss(zones.zones)

\* C2: once a pass has chosen a planet, no request is running or issued any
\* more in that pass, every detail request of the pass was for the chosen
\* planet or one before it in the list, and the chosen planet and the list of
\* detail requests stay as they are until the next pass begins.
C2_SelectionMonotonic ==
    [][/\ chosen' =>
            /\ pc' \notin {"req", "backoff"}
            /\ currentPlanetId' = planets'[index']
            /\ \A i \in 1..Len(detailCalls') :
                 \E j \in 1..index' : planets'[j] = detailCalls'[i]
       /\ (chosen /\ pass' = pass) =>
            /\ chosen'
            /\ currentPlanetId' = currentPlanetId
            /\ detailCalls' = detailCalls
            /\ index' = index]_vars

\* C2 witness: a planet was chosen while a later planet of the list exists,
\* and that later planet was never requested.
C2_Witness ==
    /\ chosen
    /\ index < Len(planets)
    /\ \A i \in 1..Len(detailCalls) : detailCalls[i] # planets[index + 1]

\* C3: after the scan of a (non-empty) zone list whose zones are all captured
\* or over 0.97, the four bucket counts are zero and there is no boss signal.
C3_IneligibleZonesGiveNoSignal ==
    (/\ pc = "scanned"
     /\ Len(zones.zones) > 0
     /\ \A i \in 1..Len(zones.zones) : ~Eligible(zones.zones[i]))
        => /\ hardZones = 0 /\ mediumZones = 0
           /\ easyZones = 0 /\ unknownZones = 0
           /\ ~hasBossZone

\* C4: a RequestAPI call ends with the first attempt that does not fail at
\* transport level: no call is still running after a body was decoded, and a
\* call that returned made exactly (failed attempts + 1) attempts.
C4_ReturnsAtFirstDecodedAttempt ==
    /\ pc \in {"req", "backoff"} => req.decoded = 0
    /\ lastCall.outcome = "returned" =>
         /\ lastCall.fails < maxRetries
         /\ lastCall.attempts = lastCall.fails + 1

\* C5: with ceiling N = maxRetries, an attempt or a backoff wait happens only
\* while fewer than N attempts have failed; a call ends only by returning or
\* by raising; a call that raised has N failed attempts, raised the
\* SalienScriptException carrying its method name and N, and, when no
\* attempt of it decoded a body, made exactly N attempts.
C5_RaisesAfterExactlyNFailures ==
    /\ pc \in {"req", "backoff"} => req.retries < maxRetries
    /\ lastCall.outcome \in {"none", "returned", "raised"}
    /\ lastCall.outcome = "raised" =>
         /\ lastCall.fails = maxRetries
         /\ lastCall.error =
               SalienScriptException("Failed", lastCall.method, maxRetries)
         /\ lastCall.attempts = maxRetries + lastCall.decoded
         /\ lastCall.backoffs = maxRetries - 1

\* C5 witness: a call raised after N failed attempts and nothing else.
C5_Witness ==
    /\ lastCall.outcome = "raised"
    /\ lastCall.decoded = 0
    /\ lastCall.attempts = maxRetries
    /\ maxRetries > 1

\* C6: when a request of the pass has exhausted its retry budget, setupGame
\* has not returned normally: the exception is the one init's catch holds,
\* and the pass has chosen no planet.
C6_ExhaustionReachesInit ==
    exhausted =>
        /\ pc \in {"restart", "init"}
        /\ caught.name = "SalienScriptException"
        /\ caught.text = "Failed"
        /\ ~chosen

\* C7: when GetPlanets returns an empty or absent planet list, setupGame
\* throws the "no planets" exception, before any detail request and with
\* knownPlanets as it was.
C7_NoPlanetsThrows ==
    (/\ lastCall.method = "GetPlanets"
     /\ lastCall.outcome = "returned"
     /\ \/ lastBody.kind = "noPlanets"
        \/ lastBody.kind = "planets" /\ lastBody.planets = <<>>)
        => /\ pc = "restart"
           /\ caught = SalienScriptException("Didn't find any planets.", "", 0)
           /\ detailCalls = <<>>
           /\ AppendedThisPass = <<>>
           /\ ~chosen

\* C8: a pass that returns after scanning a planet whose zones hold no
\* eligible boss zone has scanned the whole list and has chosen no planet.
C8_NoBossLeavesNoChoice ==
    (/\ PassReturned
     /\ scanned
     /\ Len(zones.zones) > 0
     /\ ~HasEligibleBoss(zones.zones)) =>
        /\ index = Len(planets)
        /\ ~chosen

C10_KnownPlanetsRecordsScans ==
    /\ AppendedThisPass = SubSeq(planets, 1, index)
    /\ \A i \in 1..Len(detailCalls) :
         \E j \in 1..Len(AppendedThisPass) : AppendedThisPass[j] = detailCalls[i]
    /\ detailCalls # <<>> =>
         /\ AppendedThisPass # <<>>
         /\ AppendedThisPass[Len(AppendedThisPass)] = detailCalls[Len(detailCalls)]
    /\ \A j \in 1..Len(AppendedThisPass) :
         \E i \in 1..Len(detailCalls) : AppendedThisPass[j] = detailCalls[i]

\* C10 witness: the scan stopped early on a selection; the chosen planet is
\* recorded and the later planet of the list is not.
C10_Witness ==
    /\ PassReturned
    /\ chosen
    /\ Len(planets) = index + 1
    /\ AppendedThisPass = <<currentPlanetId>>
    /\ knownAtStart > 0

\* The pass has ended, by a return of setupGame or by an error in init.
PassEnded == pc \in {"gameLoop", "restart"}

\* C11: setupGame is idempotent on an unchanged snapshot: a pass that ends
\* after an earlier pass against the same answers leaves the same chosen
\* planet id, and has chosen a planet exactly if the earlier pass had.
C11_SameSnapshotSameChoice ==
    (snap.on /\ pass >= 2 /\ PassEnded) =>
        /\ currentPlanetId = snap.prevId
        /\ chosen = snap.prevChosen

\* C11 witness: the second pass over a list of two planets has returned with
\* the planet of the first pass chosen again.
C11_Witness ==
    /\ snap.on
    /\ pass >= 2
    /\ PassReturned
    /\ chosen
    /\ snap.prevChosen
    /\ Len(planets) >= 2
    /\ currentPlanetId = planets[1]

\* C12: with ceiling N = maxRetries >= 1 every RequestAPI call ends within N
\* attempts, and whatever a decoded body is (null, false, 0, "" included) the
\* attempt that decoded it is the last one: no attempt follows a decoded
\* body, so no attempt is made without a failed attempt before it having
\* consumed budget.
C12_DecodedBodyEndsCallWithinBudget ==
    /\ req.attempts <= maxRetries
    /\ lastCall.attempts <= maxRetries
    /\ req.attempts = req.retries + req.decoded
    /\ req.decoded > 0 => pc \notin {"req", "backoff"}
    /\ lastCall.outcome = "returned" => lastCall.decoded = 1

\* C13: within one RequestAPI call every failed attempt that leaves attempts
\* remaining is followed, before the next attempt, by exactly one wait of
\* defaultDelayMs, the same for every retry; no wait follows an attempt that
\* decoded a body, and none follows the failed attempt that exhausts the
\* budget.
C13_OneConstantBackoffPerRetry ==
    /\ pc = "req" => req.backoffs = req.retries
    /\ pc = "backoff" =>
         /\ req.retries < maxRetries
         /\ req.backoffs = req.retries - 1
    /\ req.waited = defaultDelayMs * req.backoffs
    /\ lastCall.waited = defaultDelayMs * lastCall.backoffs
    /\ lastCall.outcome = "returned" => lastCall.backoffs = lastCall.fails
    /\ lastCall.outcome = "raised" => lastCall.backoffs = lastCall.fails - 1

\* C13 witness: a call returned at its third attempt, after two failed
\* attempts and two waits of defaultDelayMs.
C13_Witness ==
    /\ lastCall.outcome = "returned"
    /\ lastCall.fails = 2
    /\ lastCall.backoffs = 2
    /\ lastCall.waited = 2 * defaultDelayMs

\* C14: at every moment at most one API request is outstanding, and it is
\* the request of the running pass's current step: GetPlanets before any
\* planet is scanned, else the detail of the planet the scan stands at (the
\* planets are scanned one after the other). At most one pass is running,
\* and while init waits to restart or is re-invoked no pass is running and
\* no request is outstanding, so passes do not overlap across restarts.
C14_OneRequestAtATime ==
    /\ inflight \in {0, 1}
    /\ running \in {0, 1}
    /\ (inflight = 1) <=> (pc = "req")
    /\ inflight = 1 => running = 1
    /\ pc \in {"init", "restart", "gameLoop"} => (inflight = 0 /\ running = 0)
    /\ (pc = "req" /\ req.method = "GetPlanets") =>
         (index = 0 /\ detailCalls = <<>>)
    /\ (pc = "req" /\ req.method = "GetPlanet") =>
         /\ index >= 1
         /\ req.planet = planets[index]
         /\ detailCalls[Len(detailCalls)] = planets[index]
    /\ pc = "req" => req.method \in {"GetPlanets", "GetPlanet"}

\* C14 witness: in a pass begun by a restart the detail request of a planet
\* is the one outstanding request.
C14_Witness ==
    /\ pass >= 2
    /\ pc = "req"
    /\ req.method = "GetPlanet"
    /\ inflight = 1
    /\ running = 1
    /\ knownAtStart > 0

\* C15: every error raised by setupGame or gameLoop is caught by init, which
\* does not end: its one delay is followed by a new call of init, and that
\* call starts a selection pass from scratch, with a fresh GetPlanets request
\* and no planet list or scan position kept. Whenever init is waiting to
\* restart, a new pass eventually starts (within the MaxPasses passes
\* explored).
C15_ErrorRestartsSelection ==
    /\ [][(caught' # caught /\ caught' # NoError) => pc' = "restart"]_vars
    /\ [][pc = "restart" => pc' = "init"]_vars
    /\ [][pc = "init" =>
            /\ pass' = pass + 1
            /\ pc' = "req"
            /\ req' = Request("GetPlanets", NoPlanet)
            /\ planets' = <<>>
            /\ index' = 0
            /\ detailCalls' = <<>>]_vars
    /\ [](pc = "gameLoop" => ENABLED GameLoop)
    /\ [](pc \in {"init", "req", "backoff", "gameLoop", "restart"})
    /\ \A n \in 1..(MaxPasses - 1) :
         (pc = "restart" /\ pass = n) ~>
             (pass = n + 1 /\ pc = "req" /\ req = Request("GetPlanets", NoPlanet))

\* C15 witness: after the error of an earlier pass, a later pass has issued
\* its fresh GetPlanets request.
C15_Witness ==
    /\ pass >= 2
    /\ pc = "req"
    /\ req = Request("GetPlanets", NoPlanet)
    /\ knownAtStart > 0
    /\ planets = <<>>

\* C16: knownPlanets is a set that is reset on restart: it is empty when a
\* pass starts, also one begun by a restart of init, so it holds no id twice
\* and only ids pushed in the running pass.
C16_KnownPlanetsResetOnRestart ==
    /\ knownAtStart = 0
    /\ pc = "init" => knownPlanets = <<>>
    /\ knownPlanets = AppendedThisPass
    /\ Distinct(knownPlanets)

\* C17: a selection pass joins nothing and changes nothing of the session:
\* every request setupGame issues is GetPlanets or GetPlanet, never
\* GetPlayerInfo, RepresentClan, LeaveGame or JoinPlanet, and no step
\* changes token, clan or maxRetries; of the instance only knownPlanets and
\* currentPlanetId are written.
C17_PassOnlyReads ==
    [][/\ token' = token
       /\ clan' = clan
       /\ maxRetries' = maxRetries
       /\ pc' = "req" =>
            /\ req'.method \in ReadMethods
            /\ req'.method \notin WriteMethods]_vars

\* C17 witness: a pass that asked for the list and for a detail has chosen a
\* planet and returned, with token and clan as constructed.
C17_Witness ==
    /\ PassReturned
    /\ chosen
    /\ detailCalls # <<>>
    /\ knownPlanets # <<>>
    /\ token = "token"
    /\ clan = "clan"

\* The eligible zones of a list whose difficulty is one of D.
EligibleWith(zs, D) ==
    Cardinality({i \in 1..Len(zs) : Eligible(zs[i]) /\ zs[i].difficulty \in D})

\* C18: the scan of a planet counts each eligible zone in exactly one of the
\* four buckets, by its difficulty (3 hard, 2 medium, 1 easy, anything else
\* unknown) and whatever its type, so the four counts sum to the number of
\* eligible zones.
C18_EachEligibleZoneInOneBucket ==
    pc = "scanned" =>
        LET zs == zones.zones IN
        /\ hardZones + mediumZones + easyZones + unknownZones = EligibleCount(zs)
        /\ hardZones = EligibleWith(zs, {HardDifficulty})
        /\ mediumZones = EligibleWith(zs, {MediumDifficulty})
        /\ easyZones = EligibleWith(zs, {EasyDifficulty})
        /\ unknownZones = EligibleCount(zs)
              - EligibleWith(zs, {HardDifficulty, MediumDifficulty, EasyDifficulty})

\* C18 witness: two eligible zones were scanned, one of a type that is
\* neither 3 nor 4, and both are counted.
C18_Witness ==
    /\ pc = "scanned"
    /\ Len(zones.zones) = 2
    /\ EligibleCount(zones.zones) = 2
    /\ \E i \in 1..2 : zones.zones[i].type \notin {BossType, NormalType}
    /\ hardZones + mediumZones + easyZones + unknownZones = 2
    /\ unknownZones = 1

\* C19: every error that escapes setupGame is a SalienScriptException,
\* whatever the shape of the payloads (a body without response field, a
\* response without planets field, a planet detail without zones field): no
\* TypeError reaches init's catch.
C19_OnlySalienScriptExceptionEscapes ==
    /\ caught.name \in {"none", "SalienScriptException"}
    /\ pc = "restart" => caught.name = "SalienScriptException"

\* C20: when a pass of setupGame returns without raising, after any passes
\* and restarts before it, currentPlanetId is null or was assigned in this
\* pass: it is the id of a planet of this pass's GetPlanets list that this
\* pass scanned, never an id left by an earlier pass.
C20_ChoiceBelongsToReturningPass ==
    (PassReturned /\ currentPlanetId # NoPlanet) =>
        /\ chosen
        /\ \E i \in 1..Len(planets) : planets[i] = currentPlanetId
        /\ \E j \in 1..Len(AppendedThisPass) :
              AppendedThisPass[j] = currentPlanetId

====
